---- MODULE Spec2Model ----
(***************************************************************************)
(* Configuration validation (ludwig/config_validation/validation.py) and   *)
(* the polymorphic hyperopt fields (ludwig/schema/hyperopt/scheduler.py,   *)
(* search_algorithm.py).                                                   *)
(*                                                                         *)
(* A Python dict is a TLA+ function whose DOMAIN is the set of its keys,   *)
(* Python's None is the record None, a float is an integer number of       *)
(* hundredths (0.25 is 25).                                                *)
(***************************************************************************)
EXTENDS Integers, Sequences, FiniteSets, TLC

VARIABLES
    pc,               \* thread -> position inside validate_config
    calls,            \* number of validate_config calls started so far
    config,           \* thread -> argument of validate_config
    updated_config,   \* thread -> result of the upgrader
    model_type,       \* thread -> local of validate_upgraded_config
    splitter,         \* thread -> local of validate_upgraded_config
    schema,           \* thread -> value of get_schema(model_type=model_type)
    cls,              \* thread -> value of get_validator()
    log,              \* thread -> the steps the current call has run, in order
    seen,             \* thread -> the argument each collaborator received
    thrown,           \* thread -> the error a step of the current call raised
    error_path,       \* thread -> where in the instance a schema violation was found
    outcome,          \* thread -> what the finished call gave its caller
    VALIDATION_LOCK,  \* 0 when free, else the thread that holds it
    schema_cache,     \* lru_cache of get_schema: model types, least recent first
    validator_cache,  \* lru_cache of get_validator: TRUE once built
    ld_family,        \* the polymorphic family of the last _deserialize call
    ld_value,         \* its value argument
    ld_result,        \* what it returned or raised
    last_call,        \* the last direct call of a function: name, arguments, result
    schema_calls,     \* the model types of the direct get_schema calls that returned
    gs_pc,            \* thread -> position inside a direct call of get_schema
    gs_arg,           \* thread -> the model_type of that call
    gs_obj,           \* thread -> the object that call returned: which build, what value
    gs_calls,         \* number of direct concurrent get_schema calls started so far
    cache_obj,        \* cached model type -> the object a direct concurrent call stored
    finished,         \* the builds of direct concurrent calls, in the order they ended
    heap,             \* the loaded variant objects, each at its address (its index)
    fields_declared,  \* family -> the polymorphic field built for it, with its default
    resolved,         \* family -> how many times the default variant was loaded
    cfgs              \* the config objects created, each with the address it holds

orch_vars == <<pc, calls, config, updated_config, model_type, splitter, schema, cls,
               log, seen, thrown, error_path, outcome, VALIDATION_LOCK, schema_cache,
               validator_cache>>
ld_vars == <<ld_family, ld_value, ld_result>>
call_vars == <<last_call, schema_calls>>
gs_vars == <<gs_pc, gs_arg, gs_obj, gs_calls, cache_obj, finished>>
share_vars == <<heap, fields_declared, resolved, cfgs>>
more_vars == <<gs_vars, share_vars>>
pure_vars == <<ld_vars, call_vars, more_vars>>
vars == <<orch_vars, pure_vars>>

-----------------------------------------------------------------------------
(* Bounds *)

NumThreads == 2
MaxCalls == 3
\* the conditionals of a schema are tried turned by up to this many places
MaxTurn == 2
\* get_schema is called directly at most this many times
MaxSchemaCalls == 4
\* threads start at most this many direct concurrent get_schema calls
MaxRaceCalls == 3
\* at most this many config objects are created
MaxConfigs == 3

Threads == 1..NumThreads

-----------------------------------------------------------------------------
(* Python values *)

None == [nil |-> TRUE]

\* dict.get(key, default)
Get(d, key, default) == IF key \in DOMAIN d THEN d[key] ELSE default

EmptyDict == [k \in {} |-> None]

\* a dict without some keys
Without(d, keys) == [k \in DOMAIN d \ keys |-> d[k]]

Returned(v) == [kind |-> "return", value |-> v]
Raised(e) == [kind |-> "raise", exc |-> e]

-----------------------------------------------------------------------------
(* ludwig.constants *)

MODEL_ECD == "ecd"
MODEL_GBM == "gbm"
MODEL_LLM == "llm"
LATEST_VERSION == "latest"

TopLevelProperties ==
    {"model_type", "input_features", "output_features", "trainer", "preprocessing",
     "hyperopt", "defaults", "ludwig_version", "backend"}

KnownModelTypes == {MODEL_ECD, MODEL_GBM, MODEL_LLM}

-----------------------------------------------------------------------------
(* Python values of the polymorphic fields: every value carries its type *)

PyStr(x) == [t |-> "str", s |-> x]
PyInt(x) == [t |-> "int", i |-> x]
PyFloat(hundredths) == [t |-> "float", f |-> hundredths]
PyBool(x) == [t |-> "bool", b |-> x]
PyTuple(x) == [t |-> "tuple", items |-> x]
PyList(x) == [t |-> "list", items |-> x]
PyDict(x) == [t |-> "dict", d |-> x]
PyClass(name) == [t |-> "class", name |-> name]

\* the mapping {"type": d}
Minimal(d) == PyDict([type |-> PyStr(d)])

\* isinstance(value, dict)
IsDict(x) == x # None /\ x.t = "dict"

\* the number a numeric value stands for, in hundredths
Num(x) == IF x.t = "int" THEN 100 * x.i ELSE x.f
IsNumber(x) == x # None /\ x.t \in {"int", "float"}

RaisedMsg(e, m) == [kind |-> "raise", exc |-> e, msg |-> m]

\* str.lower() on the type names in use
Lower(x) ==
    CASE x = "FIFO" -> "fifo"
      [] x = "PBT" -> "pbt"
      [] OTHER -> x

\* x[i]: only a sequence can be subscripted, a class cannot
GetItem(x, i) ==
    IF x.t \in {"tuple", "list"}
    THEN Returned(x.items[i + 1])
    ELSE RaisedMsg("TypeError", "object is not subscriptable")

-----------------------------------------------------------------------------
(* ludwig.schema.utils: field declarations and Schema().load *)

StringOptions(options, default, allow_none) ==
    [kind |-> "StringOptions", options |-> options, default |-> default,
     allow_none |-> allow_none]
PositiveInteger(default) == [kind |-> "PositiveInteger", default |-> default]
NonNegativeInteger(default) == [kind |-> "NonNegativeInteger", default |-> default]
NonNegativeFloat(default) == [kind |-> "NonNegativeFloat", default |-> default]
FloatRange(default, min, max) ==
    [kind |-> "FloatRange", default |-> default, min |-> min, max |-> max]
FloatRangeTupleDataclassField(default) ==
    [kind |-> "FloatRangeTuple", default |-> default]
Boolean(default) == [kind |-> "Boolean", default |-> default]
DictField(default) == [kind |-> "Dict", default |-> default]
String(default) == [kind |-> "String", default |-> default]

\* does a value satisfy a field's declaration
FieldAccepts(f, x) ==
    CASE f.kind = "StringOptions" ->
            IF x = None THEN f.allow_none ELSE x.t = "str" /\ x.s \in f.options
      [] f.kind = "PositiveInteger" -> x # None /\ x.t = "int" /\ x.i >= 1
      [] f.kind = "NonNegativeInteger" -> x # None /\ x.t = "int" /\ x.i >= 0
      [] f.kind = "NonNegativeFloat" -> IsNumber(x) /\ Num(x) >= 0
      [] f.kind = "FloatRange" -> IsNumber(x) /\ Num(x) >= f.min /\ Num(x) <= f.max
      [] f.kind = "FloatRangeTuple" ->
            /\ x # None
            /\ x.t \in {"tuple", "list"}
            /\ Len(x.items) = 2
            /\ \A i \in 1..2 : IsNumber(x.items[i]) /\ Num(x.items[i]) >= 0
      [] f.kind = "Boolean" -> x # None /\ x.t = "bool"
      [] f.kind = "Dict" -> x = None \/ x.t = "dict"
      [] f.kind = "String" -> x = None \/ x.t = "str"

\* cls.Schema().load(d): an undeclared key or a value its field refuses raises, a
\* missing key takes the field's default
SchemaLoad(name, fields, d) ==
    IF DOMAIN d \subseteq DOMAIN fields /\ \A k \in DOMAIN d : FieldAccepts(fields[k], d[k])
    THEN Returned([cls |-> name,
                   fields |-> [k \in DOMAIN fields |->
                                  IF k \in DOMAIN d THEN d[k] ELSE fields[k].default]])
    ELSE RaisedMsg("ValidationError", "marshmallow")

-----------------------------------------------------------------------------
(* ludwig.utils.registry.Registry: names in registration order, each with its value *)

RegistryKeys(reg) == {reg[i][1] : i \in 1..Len(reg)}

\* key in registry
RegistryContains(reg, key) == key # None /\ key.t = "str" /\ key.s \in RegistryKeys(reg)

\* registry[name]: the value registered last under the name
RegistryGet(reg, name) ==
    LET at == {i \in 1..Len(reg) : reg[i][1] = name}
    IN  reg[CHOOSE i \in at : \A j \in at : j <= i][2]

-----------------------------------------------------------------------------
(* scheduler.py *)

DEFAULT_RESULT_KEYS ==
    {"training_iteration", "time_total_s", "timesteps_total", "mean_accuracy", "mean_loss"}
RAY_TUNE_DESULT_DEFAULT_METRIC == "_metric"

time_attr(default) == StringOptions(DEFAULT_RESULT_KEYS, PyStr(default), FALSE)
metric == StringOptions(DEFAULT_RESULT_KEYS \cup {RAY_TUNE_DESULT_DEFAULT_METRIC}, None, TRUE)
mode == StringOptions({"min", "max"}, None, TRUE)

AsyncHyperbandSchedulerConfig_maxTFrom0 ==
    [type |-> StringOptions({"async_hyperband"}, PyStr("async_hyperband"), FALSE),
     time_attr |-> time_attr("training_iteration"),
     metric |-> metric,
     mode |-> mode,
     max_t |-> NonNegativeInteger(PyInt(100)),
     grace_period |-> PositiveInteger(PyInt(1)),
     reduction_factor |-> NonNegativeFloat(PyInt(4))]

AsyncHyperbandSchedulerConfig ==
    [type |-> StringOptions({"async_hyperband"}, PyStr("async_hyperband"), FALSE),
     time_attr |-> time_attr("training_iteration"),
     metric |-> metric,
     mode |-> mode,
     max_t |-> PositiveInteger(PyInt(100)),
     grace_period |-> PositiveInteger(PyInt(1)),
     reduction_factor |-> NonNegativeFloat(PyInt(4))]

HyperbandSchedulerConfig ==
    [type |-> StringOptions({"hyperband"}, PyStr("hyperband"), FALSE),
     time_attr |-> time_attr("training_iteration"),
     metric |-> metric,
     mode |-> mode,
     max_t |-> PositiveInteger(PyInt(81)),
     reduction_factor |-> NonNegativeFloat(PyInt(3)),
     stop_last_trials |-> Boolean(PyBool(TRUE))]

MedianStoppingRuleSchedulerConfig ==
    [type |-> StringOptions({"median_stopping_rule"}, PyStr("median_stopping_rule"), FALSE),
     time_attr |-> time_attr("time_total_s"),
     metric |-> metric,
     mode |-> mode,
     grace_period |-> NonNegativeFloat(PyFloat(6000)),
     min_samples_required |-> PositiveInteger(PyInt(3)),
     min_time_slice |-> NonNegativeInteger(PyInt(0)),
     hard_stop |-> Boolean(PyBool(TRUE))]

PopulationBasedTrainingSchedulerConfig ==
    [type |-> StringOptions({"pbt"}, PyStr("pbt"), FALSE),
     time_attr |-> time_attr("time_total_s"),
     metric |-> metric,
     mode |-> mode,
     perturbation_interval |-> NonNegativeFloat(PyFloat(6000)),
     burn_in_period |-> NonNegativeFloat(PyFloat(6000)),
     hyperparam_mutations |-> DictField(None),
     quantile_fraction |-> FloatRange(PyFloat(25), 0, 50),
     resample_probability |-> NonNegativeFloat(PyFloat(25)),
     perturbation_factors |-> FloatRangeTupleDataclassField(PyTuple(<<PyFloat(120), PyFloat(80)>>)),
     custom_explore_fn |-> String(None),
     log_config |-> Boolean(PyBool(TRUE)),
     require_attrs |-> Boolean(PyBool(TRUE)),
     synch |-> Boolean(PyBool(FALSE))]

PopulationBasedTrainingReplaySchedulerConfig ==
    [type |-> StringOptions({"pbt_replay"}, PyStr("pbt_replay"), FALSE),
     policy_file |-> String(None)]

PopulationBasedBanditsSchedulerConfig ==
    [type |-> StringOptions({"pb2"}, PyStr("pb2"), FALSE),
     time_attr |-> time_attr("time_total_s"),
     metric |-> metric,
     mode |-> mode,
     perturbation_interval |-> NonNegativeFloat(PyFloat(6000)),
     hyperparam_bounds |-> DictField(None),
     quantile_fraction |-> FloatRange(PyFloat(25), 0, 50),
     log_config |-> Boolean(PyBool(TRUE)),
     require_attrs |-> Boolean(PyBool(TRUE)),
     synch |-> Boolean(PyBool(FALSE))]

BOHBSchedulerConfig ==
    [type |-> StringOptions({"bohb"}, PyStr("bohb"), FALSE),
     time_attr |-> time_attr("training_iteration"),
     metric |-> metric,
     mode |-> mode,
     max_t |-> PositiveInteger(PyInt(81)),
     reduction_factor |-> NonNegativeFloat(PyInt(3)),
     stop_last_trials |-> Boolean(PyBool(TRUE))]

FIFOSchedulerConfig ==
    [type |-> StringOptions({"fifo"}, PyStr("fifo"), FALSE)]

ResourceChangingSchedulerConfig ==
    [type |-> StringOptions({"resource_changing"}, PyStr("resource_changing"), FALSE),
     base_scheduler |-> String(None),
     resources_allocation_function |-> String(None)]

\* the declared fields of a scheduler config class
SchedulerFields(name) ==
    CASE name = "AsyncHyperbandSchedulerConfig" -> AsyncHyperbandSchedulerConfig
      [] name = "HyperbandSchedulerConfig" -> HyperbandSchedulerConfig
      [] name = "MedianStoppingRuleSchedulerConfig" -> MedianStoppingRuleSchedulerConfig
      [] name = "PopulationBasedTrainingSchedulerConfig" ->
            PopulationBasedTrainingSchedulerConfig
      [] name = "PopulationBasedTrainingReplaySchedulerConfig" ->
            PopulationBasedTrainingReplaySchedulerConfig
      [] name = "PopulationBasedBanditsSchedulerConfig" ->
            PopulationBasedBanditsSchedulerConfig
      [] name = "BOHBSchedulerConfig" -> BOHBSchedulerConfig
      [] name = "FIFOSchedulerConfig" -> FIFOSchedulerConfig
      [] name = "ResourceChangingSchedulerConfig" -> ResourceChangingSchedulerConfig

\* the register_scheduler_config decorators, in the order they run (a class's lowest
\* decorator first)
scheduler_config_registry ==
    << <<"asynchyperband", PyClass("AsyncHyperbandSchedulerConfig")>>,
       <<"async_hyperband", PyClass("AsyncHyperbandSchedulerConfig")>>,
       <<"hyperband", PyClass("HyperbandSchedulerConfig")>>,
       <<"medianstoppingrule", PyClass("MedianStoppingRuleSchedulerConfig")>>,
       <<"median_stopping_rule", PyClass("MedianStoppingRuleSchedulerConfig")>>,
       <<"pbt", PyClass("PopulationBasedTrainingSchedulerConfig")>>,
       <<"pbt_replay", PyClass("PopulationBasedTrainingReplaySchedulerConfig")>>,
       <<"pb2", PyClass("PopulationBasedBanditsSchedulerConfig")>>,
       <<"hb_bohb", PyClass("BOHBSchedulerConfig")>>,
       <<"fifo", PyClass("FIFOSchedulerConfig")>>,
       <<"resource_changing", PyClass("ResourceChangingSchedulerConfig")>> >>

\* opt.Schema().load(value) inside try/except (TypeError, ValidationError)
SchedulerLoad(opt, d) ==
    LET r == SchemaLoad(opt.name, SchedulerFields(opt.name), d)
    IN  IF r.kind = "raise"
        THEN RaisedMsg("ValidationError", "Invalid params for optimizer")
        ELSE r

SchedulerDeserialize_noNone(value) ==
    IF IsDict(value)
    THEN RaisedMsg("ValidationError", "Invalid params for optimizer")
    ELSE RaisedMsg("ValidationError", "Field should be None or dict")

\* SchedulerDataclassField.OptimizerMarshmallowField._deserialize
SchedulerDeserialize(value) ==
    IF value = None THEN Returned(None)
    ELSE IF IsDict(value)
    THEN LET d == value.d
         IN  IF "type" \in DOMAIN d /\ RegistryContains(scheduler_config_registry, d["type"])
             THEN LET opt == GetItem(RegistryGet(scheduler_config_registry,
                                                 Lower(d["type"].s)), 1)
                  IN  IF opt.kind = "raise" THEN opt ELSE SchedulerLoad(opt.value, d)
             ELSE RaisedMsg("ValidationError", "Invalid params for optimizer")
    ELSE RaisedMsg("ValidationError", "Field should be None or dict")

\* the default SchedulerDataclassField is declared with
SchedulerFieldDefault == PyDict([type |-> PyStr("async_hyperband")])

-----------------------------------------------------------------------------
(* search_algorithm.py *)

\* the names ludwig.hyperopt.search_algos registers
search_algorithm_registry ==
    << <<"random", PyClass("BasicVariantSA")>>,
       <<"variant_generator", PyClass("BasicVariantSA")>>,
       <<"hyperopt", PyClass("HyperoptSA")>>,
       <<"bohb", PyClass("BOHBSA")>> >>

BaseSearchAlgorithmConfig ==
    [type |-> StringOptions(RegistryKeys(search_algorithm_registry), PyStr("hyperopt"), FALSE)]

SearchAlgorithmDeserialize_typeError(value) ==
    IF IsDict(value)
    THEN LET r == SchemaLoad("BaseSearchAlgorithmConfig", BaseSearchAlgorithmConfig, value.d)
         IN  IF r.kind = "raise"
             THEN RaisedMsg("ValidationError", "Invalid params for scheduler")
             ELSE r
    ELSE IF value = None THEN Returned(None)
    ELSE RaisedMsg("TypeError", "Field should be dict")

\* SearchAlgorithmDataclassField.SearchAlgorithmMarshmallowField._deserialize
SearchAlgorithmDeserialize(value) ==
    IF IsDict(value)
    THEN LET r == SchemaLoad("BaseSearchAlgorithmConfig", BaseSearchAlgorithmConfig, value.d)
         IN  IF r.kind = "raise"
             THEN RaisedMsg("ValidationError", "Invalid params for scheduler")
             ELSE r
    ELSE RaisedMsg("ValidationError", "Field should be dict")

\* the default SearchAlgorithmDataclassField is declared with
SearchAlgorithmFieldDefault == PyDict([type |-> PyStr("variant_generator")])

-----------------------------------------------------------------------------
(* the scheduler family's JSON schema: get_scheduler_conds and
   _jsonschema_type_mapping, and jsonschema's evaluation of it *)

\* the JSON schema of one declared field; bounds are in hundredths
FieldJsonSchema(f) ==
    CASE f.kind = "StringOptions" ->
            [type |-> {"string"} \cup (IF f.allow_none THEN {"null"} ELSE {}),
             enum |-> f.options, default |-> f.default]
      [] f.kind = "PositiveInteger" ->
            [type |-> {"integer"}, minimum |-> 100, default |-> f.default]
      [] f.kind = "NonNegativeInteger" ->
            [type |-> {"integer"}, minimum |-> 0, default |-> f.default]
      [] f.kind = "NonNegativeFloat" ->
            [type |-> {"number"}, minimum |-> 0, default |-> f.default]
      [] f.kind = "FloatRange" ->
            [type |-> {"number"}, minimum |-> f.min, maximum |-> f.max,
             default |-> f.default]
      [] f.kind = "FloatRangeTuple" ->
            [type |-> {"array"}, items |-> [type |-> {"number"}, minimum |-> 0],
             minItems |-> 2, maxItems |-> 2, default |-> f.default]
      [] f.kind = "Boolean" -> [type |-> {"boolean"}, default |-> f.default]
      [] f.kind = "Dict" -> [type |-> {"object", "null"}, default |-> f.default]
      [] f.kind = "String" -> [type |-> {"string", "null"}, default |-> f.default]

\* schema_utils.unload_jsonschema_from_marshmallow_class(cls)
unload_jsonschema_from_marshmallow_class(c) ==
    LET fields == SchedulerFields(c.name)
    IN  [type |-> "object",
         properties |-> [k \in DOMAIN fields |-> FieldJsonSchema(fields[k])]]

\* schema_utils.remove_duplicate_fields(props): the discriminator is dropped
remove_duplicate_fields(props) == Without(props, {"type"})

\* schema_utils.create_cond(if_pred, then_pred)
create_cond(if_pred, then_pred) ==
    [if |-> if_pred, then |-> [properties |-> then_pred]]

get_scheduler_conds_keepType ==
    [i \in 1..Len(scheduler_config_registry) |->
        LET scheduler_config == scheduler_config_registry[i][1]
            scheduler_cls == RegistryGet(scheduler_config_registry, scheduler_config)
        IN  create_cond([type |-> scheduler_config],
                        unload_jsonschema_from_marshmallow_class(scheduler_cls).properties)]

\* get_scheduler_conds(): one conditional per name of the registry, in its order
get_scheduler_conds ==
    [i \in 1..Len(scheduler_config_registry) |->
        LET scheduler_config == scheduler_config_registry[i][1]
            scheduler_cls == RegistryGet(scheduler_config_registry, scheduler_config)
            other_props ==
                unload_jsonschema_from_marshmallow_class(scheduler_cls).properties
        IN  create_cond([type |-> scheduler_config], remove_duplicate_fields(other_props))]

\* OptimizerMarshmallowField._jsonschema_type_mapping()
SchedulerJsonSchema ==
    [type |-> "object",
     properties |->
        [type |-> [type |-> {"string"},
                   enum |-> RegistryKeys(scheduler_config_registry),
                   default |-> SchedulerFieldDefault.d["type"]]],
     title |-> "scheduler_options",
     allOf |-> get_scheduler_conds,
     required |-> {"type"}]

\* the JSON types a validator's type checker gives a value
JsonTypes(x, validator) ==
    CASE x = None -> {"null"}
      [] x.t = "str" -> {"string"}
      [] x.t = "int" -> {"integer", "number"}
      [] x.t = "float" -> {"number"}
      [] x.t = "bool" -> {"boolean"}
      [] x.t = "dict" -> {"object"}
      [] x.t \in validator.array -> {"array"}
      [] OTHER -> {}

\* type, enum, minimum and maximum of a schema against a value
JsonScalarAccepts(fs, x, validator) ==
    /\ JsonTypes(x, validator) \cap fs.type # {}
    /\ ("enum" \in DOMAIN fs /\ x # None) => (x.t = "str" /\ x.s \in fs.enum)
    /\ ("minimum" \in DOMAIN fs /\ IsNumber(x)) => Num(x) >= fs.minimum
    /\ ("maximum" \in DOMAIN fs /\ IsNumber(x)) => Num(x) <= fs.maximum

\* a field's schema against a value
JsonAccepts(fs, x, validator) ==
    /\ JsonScalarAccepts(fs, x, validator)
    /\ ("items" \in DOMAIN fs /\ "array" \in JsonTypes(x, validator)) =>
          /\ Len(x.items) >= fs.minItems
          /\ Len(x.items) <= fs.maxItems
          /\ \A i \in 1..Len(x.items) : JsonScalarAccepts(fs.items, x.items[i], validator)

\* does the `if` of a conditional hold: `type` equals the branch's name
CondApplies(cond, d) ==
    /\ "type" \in DOMAIN d
    /\ d["type"] = PyStr(cond.if.type)

\* the places of an instance where it breaks the scheduler schema
JsonSchemaErrors(sch, instance, validator) ==
    IF "object" \notin JsonTypes(instance, validator) THEN {<<>>}
    ELSE LET d == instance.d
         IN  {<<>> : k \in sch.required \ DOMAIN d}
             \cup {<<k>> : k \in {k \in DOMAIN d \cap DOMAIN sch.properties :
                                     ~JsonAccepts(sch.properties[k], d[k], validator)}}
             \cup UNION {IF CondApplies(sch.allOf[i], d)
                         THEN {<<k>> : k \in {k \in DOMAIN d \cap
                                                     DOMAIN sch.allOf[i].then.properties :
                                  ~JsonAccepts(sch.allOf[i].then.properties[k], d[k],
                                               validator)}}
                         ELSE {} : i \in DOMAIN sch.allOf}

\* jsonschema.validate(instance, schema, cls) on the scheduler schema
ValidateJson(sch, instance, validator) ==
    LET errors == JsonSchemaErrors(sch, instance, validator)
    IN  IF errors = {} THEN Returned(None)
        ELSE [kind |-> "raise", exc |-> "ValidationError", paths |-> errors]

-----------------------------------------------------------------------------
(* Configurations handed to validate_config *)

Base == [input_features |-> {"f1"}, output_features |-> {"y"}]

CfgPlain == Base
CfgGbm == Base @@ [model_type |-> MODEL_GBM]
CfgLlm == Base @@ [model_type |-> MODEL_LLM, ludwig_version |-> LATEST_VERSION]
CfgForceSplit == Base @@ [preprocessing |-> [force_split |-> TRUE]]
CfgNoForceSplit == Base @@ [preprocessing |-> [force_split |-> FALSE]]
CfgFixedOk == Base @@ [preprocessing |-> [split |-> [type |-> "fixed", column |-> "f1"]]]
CfgFixedBad == Base @@ [preprocessing |-> [split |-> [type |-> "fixed", column |-> "nocol"]]]
CfgBogusSplit == Base @@ [preprocessing |-> [split |-> [type |-> "bogus"]]]
CfgNoInputs == [output_features |-> {"y"}]
CfgGbmCombiner == Base @@ [model_type |-> MODEL_GBM, combiner |-> [type |-> "concat"]]
CfgBogusModel == Base @@ [model_type |-> "bogus"]
CfgNoOutputs == [input_features |-> {"f1"}]
CfgUnknownKey == Base @@ [traner |-> [epochs |-> 1]]

\* an ECD configuration whose hyperopt scheduler is async_hyperband with max_t = n
CfgHyperopt(n) ==
    Base @@ [hyperopt |-> PyDict([scheduler |->
                PyDict([type |-> PyStr("async_hyperband"), max_t |-> PyInt(n)])])]
MaxTValues == {-1, 0, 1, 50}
CfgHyperoptFifo == Base @@ [hyperopt |-> PyDict([scheduler |-> Minimal("fifo")])]

\* the configurations of the concurrent runs
ConcConfigs == {CfgGbm, CfgNoInputs, CfgBogusModel}

\* the configurations of the single-caller runs
SeqConfigs ==
    {CfgPlain, CfgGbm, CfgLlm, CfgForceSplit, CfgNoForceSplit, CfgFixedOk, CfgFixedBad,
     CfgBogusSplit, CfgNoInputs, CfgGbmCombiner, CfgBogusModel, CfgNoOutputs,
     CfgUnknownKey, CfgHyperoptFifo}
    \cup {CfgHyperopt(n) : n \in MaxTValues}

-----------------------------------------------------------------------------
(* Collaborators of validate_config *)

\* upgrade_config_dict_to_latest_version: the legacy preprocessing.force_split flag
\* becomes a split section, and the result carries the latest version.
UpgradePreprocessing(p) ==
    IF "force_split" \in DOMAIN p
    THEN Without(p, {"force_split"}) @@
         (IF "split" \in DOMAIN p THEN EmptyDict
          ELSE IF p["force_split"] THEN [split |-> [type |-> "random"]]
          ELSE [split |-> [type |-> "fixed", column |-> "split"]])
    ELSE p

upgrade_config_dict_to_latest_version(c) ==
    [ludwig_version |-> LATEST_VERSION] @@
    (IF "preprocessing" \in DOMAIN c
     THEN [preprocessing |-> UpgradePreprocessing(c["preprocessing"])]
     ELSE EmptyDict) @@
    c

\* what a call of the upgrader can do: return the upgraded mapping, or raise
UpgraderOutcomes(c) ==
    {Returned(upgrade_config_dict_to_latest_version(c)), Raised("UpgraderError")}

SplitTypes == {"random", "fixed"}

\* get_splitter(**kwargs): the split type defaults to random, an unknown one raises
get_splitter(kwargs) ==
    LET type == Get(kwargs, "type", "random")
    IN  IF type \in SplitTypes
        THEN Returned([type |-> type] @@ kwargs)
        ELSE Raised("SplitterLookupError")

\* splitter.validate(config): a fixed split needs a column the features declare
SplitterValidate(s, c) ==
    IF s["type"] = "fixed" /\
       Get(s, "column", "split") \notin Get(c, "input_features", {})
                                         \cup Get(c, "output_features", {})
    THEN Raised("SplitValidationError")
    ELSE Returned(None)

-----------------------------------------------------------------------------
(* validation.py *)

SchemaCacheMaxsize == 2

\* the per-model-type schema builders (get_trainer_jsonschema and the like) look the
\* model type up and raise on one they do not know
SchemaBuildersKnow(mt) == mt \in KnownModelTypes

\* get_hyperopt_jsonschema(): the hyperopt section, of which the scheduler is modelled
get_hyperopt_jsonschema ==
    [type |-> "object", properties |-> [scheduler |-> SchedulerJsonSchema]]

BuildSchema_alwaysCombiner(mt) ==
    [type |-> "object",
     properties |-> TopLevelProperties \cup {"combiner"},
     schemas |-> [hyperopt |-> get_hyperopt_jsonschema],
     required |-> {"input_features", "output_features"},
     additionalProperties |-> FALSE]

BuildSchema_open(mt) ==
    [type |-> "object",
     properties |-> TopLevelProperties \cup (IF mt = MODEL_ECD THEN {"combiner"} ELSE {}),
     schemas |-> [hyperopt |-> get_hyperopt_jsonschema],
     required |-> {"input_features", "output_features"},
     additionalProperties |-> TRUE]

\* the body of get_schema: the names of the properties, and the schemas of those
\* properties whose inside is modelled
BuildSchema(mt) ==
    [type |-> "object",
     properties |-> TopLevelProperties \cup (IF mt = MODEL_ECD THEN {"combiner"} ELSE {}),
     schemas |-> [hyperopt |-> get_hyperopt_jsonschema],
     required |-> {"input_features", "output_features"},
     additionalProperties |-> FALSE]

LruTouch_fifo(cache, key, maxsize) ==
    IF \E i \in DOMAIN cache : cache[i] = key THEN cache
    ELSE IF Len(cache) >= maxsize THEN Append(Tail(cache), key) ELSE Append(cache, key)

LruTouch_unbounded(cache, key, maxsize) ==
    Append(SelectSeq(cache, LAMBDA k : k # key), key)

\* functools.lru_cache: a hit moves the key to the most recent end, a miss appends
\* it and drops the least recent entry beyond maxsize
LruTouch(cache, key, maxsize) ==
    LET rest == SelectSeq(cache, LAMBDA k : k # key)
        put == Append(rest, key)
    IN  IF Len(put) > maxsize THEN Tail(put) ELSE put

\* get_schema(model_type): the value, or the builders' error (nothing is cached then)
get_schema(mt) ==
    IF SchemaBuildersKnow(mt) THEN Returned(BuildSchema(mt)) ELSE Raised("KeyError")

get_validator_draft7 == [base |-> "Draft7Validator", array |-> {"list"}]

\* get_validator(): Draft7Validator with "array" redefined to take a list or a tuple
get_validator == [base |-> "Draft7Validator", array |-> {"list", "tuple"}]

\* jsonschema.validate(instance, schema, cls) at the top level
\* the places where a section breaks its schema, whose properties are schemas of
\* the scheduler's kind
SectionErrors(sch, x, validator) ==
    IF "object" \notin JsonTypes(x, validator) THEN {<<>>}
    ELSE UNION {{<<k>> \o path : path \in JsonSchemaErrors(sch.properties[k], x.d[k],
                                                           validator)} :
                   k \in DOMAIN x.d \cap DOMAIN sch.properties}

\* the places where a configuration breaks the top-level schema
TopLevelErrors(instance, sch, validator) ==
    {<<>> : k \in sch.required \ DOMAIN instance}
    \cup (IF sch.additionalProperties THEN {}
          ELSE {<<>> : k \in DOMAIN instance \ sch.properties})
    \cup UNION {{<<k>> \o path : path \in SectionErrors(sch.schemas[k], instance[k],
                                                       validator)} :
                   k \in DOMAIN instance \cap DOMAIN sch.schemas}

validate(instance, sch, validator) ==
    LET errors == TopLevelErrors(instance, sch, validator)
    IN  IF errors = {} THEN Returned(None)
        ELSE [kind |-> "raise", exc |-> "ValidationError", paths |-> errors]

\* threading.Lock.acquire() returns only while the lock is free
LockFree_mut(l) == TRUE
LockFree(l) == l = 0

\* leaving `with VALIDATION_LOCK:` releases the lock, by return or by exception
WithExit_mut(holder, by_exception) == IF by_exception THEN holder ELSE 0
WithExit(holder, by_exception) == 0

\* validate_config passes the upgrader's result to validate_upgraded_config
UpgradedArg_mut(t) == config[t]
UpgradedArg(t) == updated_config[t]

\* no step of validate_config catches: an error leaves the call as it was raised
Propagate_mut(e) == "ValidationError"
Propagate(e) == e

InLock == {"locked", "have_schema", "have_validator", "validated"}
Finished == {"returned", "raised"}

NoSeen == [upgrader |-> None, get_splitter |-> None, splitter_validate |-> None,
           validate |-> None]

Fail(t, e) ==
    /\ pc' = [pc EXCEPT ![t] = "raised"]
    /\ thrown' = [thrown EXCEPT ![t] = e]
    /\ outcome' = [outcome EXCEPT ![t] = Raised(Propagate(e))]

\* a caller enters validate_config(config)
Call(t, configs) ==
    /\ pc[t] \in {"idle"} \cup Finished
    /\ calls < MaxCalls
    /\ \E c \in configs : config' = [config EXCEPT ![t] = c]
    /\ calls' = calls + 1
    /\ pc' = [pc EXCEPT ![t] = "called"]
    /\ updated_config' = [updated_config EXCEPT ![t] = None]
    /\ model_type' = [model_type EXCEPT ![t] = "None"]
    /\ splitter' = [splitter EXCEPT ![t] = None]
    /\ schema' = [schema EXCEPT ![t] = None]
    /\ cls' = [cls EXCEPT ![t] = None]
    /\ log' = [log EXCEPT ![t] = <<>>]
    /\ seen' = [seen EXCEPT ![t] = NoSeen]
    /\ thrown' = [thrown EXCEPT ![t] = "None"]
    /\ error_path' = [error_path EXCEPT ![t] = <<>>]
    /\ outcome' = [outcome EXCEPT ![t] = None]
    /\ UNCHANGED <<VALIDATION_LOCK, schema_cache, validator_cache, pure_vars>>

\* updated_config = upgrade_config_dict_to_latest_version(config)
Upgrade(t) ==
    /\ pc[t] = "called"
    /\ log' = [log EXCEPT ![t] = Append(@, "upgrade")]
    /\ seen' = [seen EXCEPT ![t].upgrader = config[t]]
    /\ \E r \in UpgraderOutcomes(config[t]) :
         IF r.kind = "raise"
         THEN Fail(t, r.exc) /\ UNCHANGED updated_config
         ELSE /\ updated_config' = [updated_config EXCEPT ![t] = r.value]
              /\ pc' = [pc EXCEPT ![t] = "upgraded"]
              /\ UNCHANGED <<thrown, outcome>>
    /\ UNCHANGED <<calls, config, model_type, splitter, schema, cls, VALIDATION_LOCK,
                   schema_cache, validator_cache, error_path, pure_vars>>

\* model_type = updated_config.get(MODEL_TYPE, MODEL_ECD)
\* splitter = get_splitter(**updated_config.get(PREPROCESSING, {}).get(SPLIT, {}))
GetSplitter(t) ==
    /\ pc[t] = "upgraded"
    /\ LET arg == UpgradedArg(t)
           kwargs == Get(Get(arg, "preprocessing", EmptyDict), "split", EmptyDict)
           r == get_splitter(kwargs)
       IN  /\ model_type' = [model_type EXCEPT ![t] = Get(arg, "model_type", MODEL_ECD)]
           /\ log' = [log EXCEPT ![t] = Append(@, "get_splitter")]
           /\ seen' = [seen EXCEPT ![t].get_splitter = kwargs]
           /\ IF r.kind = "raise"
              THEN Fail(t, r.exc) /\ UNCHANGED splitter
              ELSE /\ splitter' = [splitter EXCEPT ![t] = r.value]
                   /\ pc' = [pc EXCEPT ![t] = "have_splitter"]
                   /\ UNCHANGED <<thrown, outcome>>
    /\ UNCHANGED <<calls, config, updated_config, schema, cls, VALIDATION_LOCK,
                   schema_cache, validator_cache, error_path, pure_vars>>

SplitValidate_mut(t) ==
    /\ pc[t] = "have_splitter"
    /\ pc' = [pc EXCEPT ![t] = "split_ok"]
    /\ UNCHANGED <<calls, config, updated_config, model_type, splitter, schema, cls,
                   log, seen, thrown, outcome, VALIDATION_LOCK, schema_cache,
                   validator_cache, error_path, pure_vars>>

\* splitter.validate(updated_config)
SplitValidate(t) ==
    /\ pc[t] = "have_splitter"
    /\ LET arg == UpgradedArg(t)
           r == SplitterValidate(splitter[t], arg)
       IN  /\ log' = [log EXCEPT ![t] = Append(@, "splitter_validate")]
           /\ seen' = [seen EXCEPT ![t].splitter_validate = arg]
           /\ IF r.kind = "raise"
              THEN Fail(t, r.exc)
              ELSE /\ pc' = [pc EXCEPT ![t] = "split_ok"]
                   /\ UNCHANGED <<thrown, outcome>>
    /\ UNCHANGED <<calls, config, updated_config, model_type, splitter, schema, cls,
                   VALIDATION_LOCK, schema_cache, validator_cache, error_path, pure_vars>>

\* with VALIDATION_LOCK: (entry)
Acquire(t) ==
    /\ pc[t] = "split_ok"
    /\ LockFree(VALIDATION_LOCK)
    /\ VALIDATION_LOCK' = t
    /\ pc' = [pc EXCEPT ![t] = "locked"]
    /\ log' = [log EXCEPT ![t] = Append(@, "acquire")]
    /\ UNCHANGED <<calls, config, updated_config, model_type, splitter, schema, cls,
                   seen, thrown, outcome, schema_cache, validator_cache, error_path, pure_vars>>

\* schema=get_schema(model_type=model_type)
GetSchema(t) ==
    /\ pc[t] = "locked"
    /\ log' = [log EXCEPT ![t] = Append(@, "get_schema")]
    /\ LET r == get_schema(model_type[t])
       IN  IF r.kind = "raise"
           THEN /\ Fail(t, r.exc)
                /\ VALIDATION_LOCK' = WithExit(VALIDATION_LOCK, TRUE)
                /\ UNCHANGED <<schema, schema_cache>>
           ELSE /\ schema' = [schema EXCEPT ![t] = r.value]
                /\ schema_cache' = LruTouch(schema_cache, model_type[t], SchemaCacheMaxsize)
                /\ pc' = [pc EXCEPT ![t] = "have_schema"]
                /\ UNCHANGED <<thrown, outcome, VALIDATION_LOCK>>
    /\ UNCHANGED <<calls, config, updated_config, model_type, splitter, cls, seen,
                   validator_cache, error_path, pure_vars>>

\* cls=get_validator()
GetValidator(t) ==
    /\ pc[t] = "have_schema"
    /\ cls' = [cls EXCEPT ![t] = get_validator]
    /\ validator_cache' = TRUE
    /\ pc' = [pc EXCEPT ![t] = "have_validator"]
    /\ log' = [log EXCEPT ![t] = Append(@, "get_validator")]
    /\ UNCHANGED <<calls, config, updated_config, model_type, splitter, schema, seen,
                   thrown, outcome, VALIDATION_LOCK, schema_cache, error_path, pure_vars>>

\* validate(instance=updated_config, schema=..., cls=...)
Validate(t) ==
    /\ pc[t] = "have_validator"
    /\ LET arg == UpgradedArg(t)
           r == validate(arg, schema[t], cls[t])
       IN  /\ log' = [log EXCEPT ![t] = Append(@, "validate")]
           /\ seen' = [seen EXCEPT ![t].validate = arg]
           /\ IF r.kind = "raise"
              THEN /\ Fail(t, r.exc)
                   /\ \E path \in r.paths : error_path' = [error_path EXCEPT ![t] = path]
                   /\ VALIDATION_LOCK' = WithExit(VALIDATION_LOCK, TRUE)
              ELSE /\ pc' = [pc EXCEPT ![t] = "validated"]
                   /\ UNCHANGED <<thrown, error_path, outcome, VALIDATION_LOCK>>
    /\ UNCHANGED <<calls, config, updated_config, model_type, splitter, schema, cls,
                   schema_cache, validator_cache, pure_vars>>

\* with VALIDATION_LOCK: (normal exit), then validate_config returns None
Release(t) ==
    /\ pc[t] = "validated"
    /\ VALIDATION_LOCK' = WithExit(VALIDATION_LOCK, FALSE)
    /\ pc' = [pc EXCEPT ![t] = "returned"]
    /\ outcome' = [outcome EXCEPT ![t] = Returned(None)]
    /\ log' = [log EXCEPT ![t] = Append(@, "release")]
    /\ UNCHANGED <<calls, config, updated_config, model_type, splitter, schema, cls,
                   seen, thrown, schema_cache, validator_cache, error_path, pure_vars>>

\* the steps of a call once it is entered
Step(t) ==
    \/ Upgrade(t)
    \/ GetSplitter(t)
    \/ SplitValidate(t)
    \/ Acquire(t)
    \/ GetSchema(t)
    \/ GetValidator(t)
    \/ Validate(t)
    \/ Release(t)

OrchInit ==
    /\ pc = [t \in Threads |-> "idle"]
    /\ calls = 0
    /\ config = [t \in Threads |-> None]
    /\ updated_config = [t \in Threads |-> None]
    /\ model_type = [t \in Threads |-> "None"]
    /\ splitter = [t \in Threads |-> None]
    /\ schema = [t \in Threads |-> None]
    /\ cls = [t \in Threads |-> None]
    /\ log = [t \in Threads |-> <<>>]
    /\ seen = [t \in Threads |-> NoSeen]
    /\ thrown = [t \in Threads |-> "None"]
    /\ error_path = [t \in Threads |-> <<>>]
    /\ outcome = [t \in Threads |-> None]
    /\ VALIDATION_LOCK = 0
    /\ schema_cache = <<>>
    /\ validator_cache = FALSE

\* no function has been called directly yet
NoCall == [op |-> "None", args |-> <<>>, result |-> None]

LdInit ==
    /\ ld_family = "None"
    /\ ld_value = None
    /\ ld_result = None
    /\ last_call = NoCall
    /\ schema_calls = <<>>

\* no thread is inside a direct call of get_schema
GsInit ==
    /\ gs_pc = [t \in Threads |-> "idle"]
    /\ gs_arg = [t \in Threads |-> "None"]
    /\ gs_obj = [t \in Threads |-> None]
    /\ gs_calls = 0
    /\ cache_obj = EmptyDict
    /\ finished = <<>>

Families == {"scheduler", "search_algorithm"}

\* no polymorphic field is declared and no config object exists
ShareInit ==
    /\ heap = <<>>
    /\ fields_declared = [f \in Families |-> None]
    /\ resolved = [f \in Families |-> 0]
    /\ cfgs = <<>>

Init == OrchInit /\ LdInit /\ GsInit /\ ShareInit

\* concurrent callers of validate_config
Next == \E t \in Threads : Call(t, ConcConfigs) \/ Step(t)

Spec == Init /\ [][Next]_vars

\* every thread that can take a step of its call eventually takes it
FairSpec == Spec /\ \A t \in Threads : WF_vars(Step(t))

\* one caller, every configuration
NextSeq == Call(1, SeqConfigs) \/ Step(1)

SpecSeq == Init /\ [][NextSeq]_vars

-----------------------------------------------------------------------------
(* values handed to the fields' _deserialize *)

Absent == [absent |-> TRUE]

TypeChoices ==
    {PyStr(n) : n \in RegistryKeys(scheduler_config_registry)
                    \cup RegistryKeys(search_algorithm_registry)
                    \cup {"bogus", "FIFO"}}
    \cup {PyInt(3), Absent}

MaxTChoices == {Absent, PyInt(50), PyInt(-1), PyStr("many")}

\* the dict with the keys that are not Absent
DictOf(full) == PyDict([k \in {k \in DOMAIN full : full[k] # Absent} |-> full[k]])

\* values of pbt's quantile_fraction, in hundredths: inside, on and outside the bounds
QuantileChoices ==
    {PyFloat(0), PyInt(0), PyFloat(25), PyFloat(50), PyFloat(60), PyFloat(-10), PyInt(1)}

PbtQuantileDicts ==
    {PyDict([type |-> PyStr("pbt"), quantile_fraction |-> q]) : q \in QuantileChoices}

LoaderDicts ==
    {DictOf([type |-> ty, max_t |-> mt]) : ty \in TypeChoices, mt \in MaxTChoices}
    \cup PbtQuantileDicts

NonMappings == {PyStr("fifo"), PyInt(3), PyList(<<PyStr("type"), PyStr("fifo")>>), PyBool(TRUE)}

LoaderValues == {None} \cup NonMappings \cup LoaderDicts

DeserializeScheduler ==
    /\ \E value \in LoaderValues :
         /\ ld_value' = value
         /\ ld_result' = SchedulerDeserialize(value)
    /\ ld_family' = "scheduler"
    /\ UNCHANGED <<orch_vars, call_vars, more_vars>>

DeserializeSearchAlgorithm ==
    /\ \E value \in LoaderValues :
         /\ ld_value' = value
         /\ ld_result' = SearchAlgorithmDeserialize(value)
    /\ ld_family' = "search_algorithm"
    /\ UNCHANGED <<orch_vars, call_vars, more_vars>>

NextLoader == DeserializeScheduler \/ DeserializeSearchAlgorithm

SpecLoader == Init /\ [][NextLoader]_vars

\* the registry of a family
FamilyRegistry(family) ==
    IF family = "scheduler" THEN scheduler_config_registry ELSE search_algorithm_registry

-----------------------------------------------------------------------------
(* validate_config: properties *)

InLog(t, step) == \E i \in 1..Len(log[t]) : log[t][i] = step

StepOrder ==
    <<"upgrade", "get_splitter", "splitter_validate", "acquire", "get_schema",
      "get_validator", "validate", "release">>

\* C1: at most one thread at a time is inside the structural validation step (between
\* the acquisition and the release of VALIDATION_LOCK), whatever the model types.
C1_MutualExclusion == Cardinality({t \in Threads : pc[t] \in InLock}) <= 1

C1_Witness ==
    \E t, u \in Threads :
        /\ pc[t] = "have_validator"
        /\ pc[u] = "split_ok"
        /\ model_type[t] # model_type[u]

\* C2: a call that has finished, by return or by an error raised under the lock, does
\* not hold VALIDATION_LOCK, the lock is held only by a call inside the with block,
\* and a call waiting for the lock eventually acquires it.
C2_LockReleased ==
    /\ [](\A t \in Threads : VALIDATION_LOCK = t => pc[t] \in InLock)
    /\ [](VALIDATION_LOCK \in Threads \cup {0})
    /\ \A t \in Threads : (pc[t] = "split_ok") ~> (pc[t] = "locked")

C2_Witness ==
    \E t, u \in Threads :
        /\ pc[t] = "raised"
        /\ thrown[t] \in {"ValidationError", "KeyError"}
        /\ pc[u] = "locked"

\* C3: the steps of one call run in the fixed order upgrade, get_splitter,
\* splitter.validate, lock, get_schema, get_validator, validate, unlock: what has run
\* so far is always a prefix of that order (nothing twice, nothing skipped), a call
\* that returned ran all of it, and a step runs only after the one before succeeded.
C3_FixedOrder ==
    \A t \in Threads :
        /\ Len(log[t]) <= Len(StepOrder)
        /\ log[t] = SubSeq(StepOrder, 1, Len(log[t]))
        /\ pc[t] = "returned" => log[t] = StepOrder
        /\ InLog(t, "get_splitter") => updated_config[t] # None
        /\ InLog(t, "acquire") => thrown[t] \notin {"SplitterLookupError", "SplitValidationError"}

C3_Witness == pc[1] = "returned" /\ log[1] = StepOrder /\ calls = 2

\* C4: split validation works on the upgraded config: model_type (ecd when absent)
\* and the split options (empty when absent) are read from the upgrader's result, and
\* splitter.validate receives the very mapping the structural validator receives.
C4_SplitUsesUpgraded ==
    \A t \in Threads :
        LET u == upgrade_config_dict_to_latest_version(config[t])
        IN  /\ InLog(t, "get_splitter") =>
                 /\ model_type[t] = Get(u, "model_type", MODEL_ECD)
                 /\ seen[t].get_splitter =
                        Get(Get(u, "preprocessing", EmptyDict), "split", EmptyDict)
            /\ InLog(t, "splitter_validate") => seen[t].splitter_validate = u
            /\ InLog(t, "validate") => seen[t].validate = seen[t].splitter_validate

C4_Witness ==
    /\ pc[1] = "returned"
    /\ config[1] = CfgForceSplit
    /\ model_type[1] = MODEL_ECD
    /\ seen[1].get_splitter = [type |-> "random"]
    /\ seen[1].validate # config[1]

\* C5 as stated: splitter.validate is given the caller's raw config.
C5_SplitAgainstRaw ==
    \A t \in Threads :
        InLog(t, "splitter_validate") => seen[t].splitter_validate = config[t]

\* C5 amended: the raw config goes to the upgrader only; the splitter is built from
\* and validated against the upgrader's result, so the call fails on its split
\* exactly when the upgraded config is inconsistent.
C5_SplitAgainstUpgraded ==
    \A t \in Threads :
        /\ InLog(t, "upgrade") => seen[t].upgrader = config[t]
        /\ InLog(t, "splitter_validate") =>
             /\ seen[t].splitter_validate = updated_config[t]
             /\ (thrown[t] = "SplitValidationError") <=>
                    (SplitterValidate(splitter[t],
                        upgrade_config_dict_to_latest_version(config[t])).kind = "raise")

C5_Witness ==
    /\ config[1] = CfgNoForceSplit
    /\ thrown[1] = "SplitValidationError"
    /\ SplitterValidate(get_splitter(EmptyDict).value, config[1]).kind = "return"

\* C6: an error of the upgrader or of the splitter leaves validate_config as it was
\* raised, and no later step has run: after an upgrader error only the upgrader ran,
\* after a splitter error the lock was never taken nor the schema validated.
C6_ErrorsPropagate ==
    \A t \in Threads :
        /\ thrown[t] # "None" => pc[t] = "raised"
        /\ thrown[t] \in {"UpgraderError", "SplitterLookupError", "SplitValidationError"} =>
             /\ outcome[t] = Raised(thrown[t])
             /\ VALIDATION_LOCK # t
             /\ ~InLog(t, "acquire") /\ ~InLog(t, "validate")
        /\ thrown[t] = "UpgraderError" => log[t] = <<"upgrade">>
        /\ thrown[t] = "SplitterLookupError" => log[t] = <<"upgrade", "get_splitter">>
        /\ thrown[t] = "SplitValidationError" =>
             log[t] = <<"upgrade", "get_splitter", "splitter_validate">>

C6_Witness ==
    /\ pc[1] = "raised"
    /\ thrown[1] = "SplitterLookupError"
    /\ outcome[1] = Raised("SplitterLookupError")
    /\ calls = 2

-----------------------------------------------------------------------------
(* the fields' _deserialize: properties *)

Loaded == ld_family # "None"

\* the last value was a mapping without a registered type
BadDiscriminator ==
    /\ Loaded
    /\ IsDict(ld_value)
    /\ \/ "type" \notin DOMAIN ld_value.d
       \/ ~RegistryContains(FamilyRegistry(ld_family), ld_value.d["type"])

\* C7 as stated: for every name d of the scheduler registry, the scheduler field's
\* loader turns {"type": d} into an object whose type is d and whose other fields
\* have the declared defaults of the class registered under d.
C7_MinimalMappingLoads ==
    \A d \in RegistryKeys(scheduler_config_registry) :
        (ld_family = "scheduler" /\ ld_value = Minimal(d)) =>
            LET fields == SchedulerFields(RegistryGet(scheduler_config_registry, d).name)
            IN  /\ ld_result.kind = "return"
                /\ ld_result.value.fields["type"] = PyStr(d)
                /\ \A k \in DOMAIN fields \ {"type"} :
                       ld_result.value.fields[k] = fields[k].default

\* C8 as stated: in both families a mapping without a `type` key, or with a `type`
\* that is not registered, is refused with a ValidationError.
C8_BadDiscriminatorRefused ==
    BadDiscriminator => (ld_result.kind = "raise" /\ ld_result.exc = "ValidationError")

RecognizedSchedulerMapping ==
    /\ ld_family = "scheduler"
    /\ IsDict(ld_value)
    /\ "type" \in DOMAIN ld_value.d
    /\ RegistryContains(scheduler_config_registry, ld_value.d["type"])

\* C11 as stated: for a mapping with a registered type, whatever goes wrong while the
\* scheduler loader looks the class up and builds the object leaves the loader as one
\* ValidationError (bad parameters or not): a raw TypeError never escapes.
C11_OnlyValidationErrorEscapes ==
    (RecognizedSchedulerMapping /\ ld_result.kind = "raise") =>
        ld_result.exc = "ValidationError"

-----------------------------------------------------------------------------
(* building the polymorphic fields: SchedulerDataclassField(default),
   SearchAlgorithmDataclassField(default) *)

\* cls.Schema().dump(default): the declared fields the mapping carries
SchemaDump(fields, d) == [k \in DOMAIN d \cap DOMAIN fields |-> d[k]]

\* dataclasses.field(metadata={"marshmallow_field": ...}, default_factory=...)
Field(name, allow_none, load_default, dump_default) ==
    Returned([field |-> name, allow_none |-> allow_none,
              load_default |-> load_default, dump_default |-> dump_default,
              default_factory |-> load_default])

SchedulerDataclassField_noCheck(default) ==
    Field("SchedulerDataclassField", FALSE, None, None)

\* SchedulerDataclassField(default=...): the part that runs when the field is built
SchedulerDataclassField(default) ==
    IF \/ ~IsDict(default)
       \/ "type" \notin DOMAIN default.d
       \/ ~RegistryContains(scheduler_config_registry, default.d["type"])
    THEN RaisedMsg("ValidationError", "Invalid default")
    ELSE LET opt == RegistryGet(scheduler_config_registry, Lower(default.d["type"].s))
             fields == SchedulerFields(opt.name)
             load_default == SchemaLoad(opt.name, fields, default.d)
         IN  IF load_default.kind = "raise"
             THEN RaisedMsg("ValidationError", "Unsupported scheduler type")
             ELSE Field("SchedulerDataclassField", FALSE, load_default.value,
                        SchemaDump(fields, default.d))

\* SearchAlgorithmDataclassField(default=...): the part that runs when the field is
\* built; the load is not inside a try
SearchAlgorithmDataclassField(default) ==
    IF ~IsDict(default)
    THEN RaisedMsg("ValidationError", "Invalid default")
    ELSE LET load_default == SchemaLoad("BaseSearchAlgorithmConfig",
                                        BaseSearchAlgorithmConfig, default.d)
         IN  IF load_default.kind = "raise"
             THEN load_default
             ELSE Field("SearchAlgorithmDataclassField", FALSE, load_default.value,
                        SchemaDump(BaseSearchAlgorithmConfig, default.d))

FieldDefaults == LoaderValues \cup {SchedulerFieldDefault, SearchAlgorithmFieldDefault}

BuildSchedulerField ==
    /\ \E default \in FieldDefaults :
         last_call' = [op |-> "SchedulerDataclassField", args |-> <<default>>,
                       result |-> SchedulerDataclassField(default)]
    /\ UNCHANGED <<orch_vars, ld_vars, schema_calls, more_vars>>

BuildSearchAlgorithmField ==
    /\ \E default \in FieldDefaults :
         last_call' = [op |-> "SearchAlgorithmDataclassField", args |-> <<default>>,
                       result |-> SearchAlgorithmDataclassField(default)]
    /\ UNCHANGED <<orch_vars, ld_vars, schema_calls, more_vars>>

NextField == BuildSchedulerField \/ BuildSearchAlgorithmField

SpecField == Init /\ [][NextField]_vars

\* the registry and the variant fields of the family a field builder belongs to
BuilderRegistry(op) ==
    IF op = "SchedulerDataclassField" THEN scheduler_config_registry
    ELSE search_algorithm_registry

\* the last call built a polymorphic field from a default that is not a mapping, or
\* has no type, or an unregistered type, or does not load as its variant
BadDefault ==
    /\ last_call.op \in {"SchedulerDataclassField", "SearchAlgorithmDataclassField"}
    /\ LET default == last_call.args[1]
       IN  \/ ~IsDict(default)
           \/ "type" \notin DOMAIN default.d
           \/ ~RegistryContains(BuilderRegistry(last_call.op), default.d["type"])
           \/ IF last_call.op = "SchedulerDataclassField"
              THEN LET opt == RegistryGet(scheduler_config_registry, default.d["type"].s)
                   IN  SchemaLoad(opt.name, SchedulerFields(opt.name), default.d).kind = "raise"
              ELSE SchemaLoad("BaseSearchAlgorithmConfig", BaseSearchAlgorithmConfig,
                              default.d).kind = "raise"

\* the kind of error C12 names: a bad default fails with a ConfigError and not with
\* a ValidationError
BadDefaultConfigError ==
    BadDefault => (last_call.result.kind = "raise" /\ last_call.result.exc = "ConfigError")

\* C12, the part that does not depend on the kind of the error: building either
\* polymorphic field from a bad default (not a mapping, no `type`, unregistered
\* `type`, variant constraints broken) fails while the field is built, and no field
\* comes back.
C12_BadDefaultNoField == BadDefault => last_call.result.kind = "raise"

-----------------------------------------------------------------------------
(* loading a scheduler class: opt.Schema().load(value) *)

\* the classes of the scheduler registry
SchedulerClasses ==
    {scheduler_config_registry[i][2] : i \in 1..Len(scheduler_config_registry)}

\* the names a class is registered under
RegisteredNames(c) ==
    {n \in RegistryKeys(scheduler_config_registry) :
        RegistryGet(scheduler_config_registry, n) = c}

LoadVariant ==
    /\ \E opt \in SchedulerClasses, value \in LoaderDicts :
         last_call' = [op |-> "Schema.load", args |-> <<opt, value>>,
                       result |-> SchemaLoad(opt.name, SchedulerFields(opt.name), value.d)]
    /\ UNCHANGED <<orch_vars, ld_vars, schema_calls, more_vars>>

SpecVariant == Init /\ [][LoadVariant]_vars

\* C13 as stated: the `type` of a scheduler object that loaded (an allowed option of
\* its class, or the class's default) is one of the names its class is registered
\* under, and a mapping whose `type` is not the variant's is refused with a
\* ValidationError rather than corrected.
C13_TypeIsRegisteredName ==
    last_call.op = "Schema.load" =>
        LET opt == last_call.args[1]
            d == last_call.args[2].d
            r == last_call.result
        IN  /\ r.kind = "return" =>
                  /\ r.value.fields["type"].s \in RegisteredNames(opt)
                  /\ "type" \in DOMAIN d => r.value.fields["type"] = d["type"]
            /\ ("type" \in DOMAIN d /\ ~(d["type"].t = "str" /\ d["type"].s \in RegisteredNames(opt))) =>
                  (r.kind = "raise" /\ r.exc = "ValidationError")

-----------------------------------------------------------------------------
(* validating instances against the scheduler schema *)

\* a sequence turned by k places, and then read backwards when asked
Reorder(seq, k, backwards) ==
    LET n == Len(seq)
        turned == [i \in 1..n |-> seq[((i - 1 + k) % n) + 1]]
    IN  IF backwards THEN [i \in 1..n |-> turned[n + 1 - i]] ELSE turned

\* values of perturbation_factors
ArrayChoices ==
    {PyTuple(<<PyFloat(120), PyFloat(80)>>), PyList(<<PyFloat(120), PyFloat(80)>>),
     PyTuple(<<PyFloat(120)>>), PyList(<<PyFloat(120)>>),
     PyTuple(<<PyStr("a"), PyFloat(80)>>), PyList(<<PyStr("a"), PyFloat(80)>>),
     PyStr("1.2, 0.8"), PyFloat(120), PyDict([low |-> PyFloat(80)])}

PbtInstances ==
    {PyDict([type |-> PyStr("pbt"), perturbation_factors |-> v]) : v \in ArrayChoices}

UnionInstances == LoaderValues \cup PbtInstances

\* the scheduler schema with its conditionals in another order
ReorderedSchema(k, backwards) ==
    [SchedulerJsonSchema EXCEPT !.allOf = Reorder(@, k, backwards)]

ValidateScheduler ==
    /\ \E instance \in UnionInstances, k \in 0..MaxTurn,
          backwards \in BOOLEAN :
         last_call' = [op |-> "validate_scheduler", args |-> <<instance, k, backwards>>,
                       result |-> ValidateJson(ReorderedSchema(k, backwards), instance,
                                               get_validator)]
    /\ UNCHANGED <<orch_vars, ld_vars, schema_calls, more_vars>>

SpecUnion == Init /\ [][ValidateScheduler]_vars

-----------------------------------------------------------------------------
(* get_schema called directly, one call after the other *)

InCache(cache, key) == \E i \in DOMAIN cache : cache[i] = key

\* get_schema(model_type=mt) through its lru_cache: a hit returns the stored schema,
\* a miss runs the body and stores what it returns; an error stores nothing
CallGetSchema ==
    /\ Len(schema_calls) < MaxSchemaCalls
    /\ \E mt \in KnownModelTypes \cup {"bogus"} :
         LET r == get_schema(mt)
         IN  /\ last_call' = [op |-> "get_schema", args |-> <<mt>>, result |-> r,
                              built |-> ~InCache(schema_cache, mt)]
             /\ IF r.kind = "return"
                THEN /\ schema_cache' = LruTouch(schema_cache, mt, SchemaCacheMaxsize)
                     /\ schema_calls' = Append(schema_calls, mt)
                ELSE UNCHANGED <<schema_cache, schema_calls>>
    /\ UNCHANGED <<pc, calls, config, updated_config, model_type, splitter, schema, cls,
                   log, seen, thrown, error_path, outcome, VALIDATION_LOCK,
                   validator_cache, ld_vars, more_vars>>

SpecSchema == Init /\ [][CallGetSchema]_vars

\* the last direct call was get_schema and it returned a schema
SchemaReturned == last_call.op = "get_schema" /\ last_call.result.kind = "return"

\* C15: the schema get_schema(model_type) returns has the property `combiner` exactly
\* when model_type is ECD, and for every model type it has the nine properties
\* model_type, input_features, output_features, trainer, preprocessing, hyperopt,
\* defaults, ludwig_version, backend.
C15_CombinerIffEcd ==
    SchemaReturned =>
        LET properties == last_call.result.value.properties
        IN  /\ "combiner" \in properties <=> last_call.args[1] = "ecd"
            /\ {"model_type", "input_features", "output_features", "trainer",
                 "preprocessing", "hyperopt", "defaults", "ludwig_version", "backend"}
                  \subseteq properties

C15_Witness ==
    /\ SchemaReturned
    /\ last_call.args = <<"gbm">>
    /\ "combiner" \notin last_call.result.value.properties
    /\ "trainer" \in last_call.result.value.properties

\* the last n distinct elements of a history, the least recently used first
RECURSIVE RecentDistinct(_, _)
RecentDistinct(h, n) ==
    IF h = <<>> \/ n = 0 THEN <<>>
    ELSE LET x == h[Len(h)]
             before == SelectSeq(SubSeq(h, 1, Len(h) - 1), LAMBDA y : y # x)
         IN  Append(RecentDistinct(before, n - 1), x)

\* C17: after any sequence of get_schema calls the cache holds at most 2 entries,
\* those of the 2 most recently used distinct model types, and two calls in a row
\* with the same model type return equal schemas.
C17_LruOfTwo ==
    [][/\ Len(schema_cache') <= 2
       /\ schema_cache' = RecentDistinct(schema_calls', 2)
       /\ (/\ SchemaReturned /\ SchemaReturned'
           /\ last_call'.args = last_call.args) =>
             last_call'.result.value = last_call.result.value]_vars

C17_Witness ==
    /\ schema_calls = <<"ecd", "gbm", "ecd", "llm">>
    /\ schema_cache = <<"ecd", "llm">>

\* some earlier direct call built or fetched the schema the last call asked for
AskedBefore ==
    /\ SchemaReturned
    /\ \E i \in 1..(Len(schema_calls) - 1) : schema_calls[i] = last_call.args[1]

\* C18 as stated: once get_schema has built the schema of a model type, every later
\* call for that model type is served from the cache without building it again,
\* whatever calls for other model types came in between.
C18_NeverRebuilt == AskedBefore => ~last_call.built

\* C18 amended: a later call for a model type is served from the cache exactly when
\* that model type is among the 2 distinct model types used most recently before
\* the call; after calls for two other model types the entry has been evicted and
\* get_schema builds the schema again.
C18_RebuiltWhenEvicted ==
    SchemaReturned =>
        LET earlier == SubSeq(schema_calls, 1, Len(schema_calls) - 1)
        IN  last_call.built <=>
               ~InCache(RecentDistinct(earlier, 2), last_call.args[1])

C18_Witness ==
    /\ schema_calls = <<"ecd", "gbm", "llm", "ecd">>
    /\ AskedBefore
    /\ last_call.built

-----------------------------------------------------------------------------
(* validate_config: what the schema check accepts *)

\* the call of thread t got as far as the schema check
SchemaChecked(t) == InLog(t, "validate")

\* C16: for every model type the schema check refuses an upgraded configuration
\* without input_features or without output_features, and one with a top-level key
\* that is not a property of the schema (combiner too, unless the model type is
\* ECD); no other top-level section is needed for the check to pass.
C16_RequiredAndClosed ==
    \A t \in Threads :
        SchemaChecked(t) =>
            LET instance == seen[t].validate
                declared == {"model_type", "input_features", "output_features", "trainer",
                             "preprocessing", "hyperopt", "defaults", "ludwig_version",
                             "backend"}
                               \cup (IF model_type[t] = "ecd" THEN {"combiner"} ELSE {})
                refused == /\ pc[t] = "raised"
                           /\ outcome[t] = Raised("ValidationError")
                lacking == ~({"input_features", "output_features"} \subseteq DOMAIN instance)
                unknown == ~(DOMAIN instance \subseteq declared)
            IN  /\ (lacking \/ unknown) => refused
                /\ (refused /\ "hyperopt" \notin DOMAIN instance) => (lacking \/ unknown)

C16_Witness ==
    /\ SchemaChecked(1)
    /\ config[1] = CfgGbmCombiner
    /\ outcome[1] = Raised("ValidationError")
    /\ error_path[1] = <<>>

\* C20: validate_config accepts an ECD configuration whose hyperopt scheduler is
\* {"type": "async_hyperband", "max_t": n} when n >= 1, and for n < 1 it raises a
\* ValidationError that points at the max_t of the scheduler.
C20_MaxTEnforced ==
    \A t \in Threads, n \in MaxTValues :
        (config[t] = CfgHyperopt(n) /\ SchemaChecked(t)) =>
            IF n >= 1
            THEN pc[t] \in {"validated", "returned"} /\ thrown[t] = "None"
            ELSE /\ pc[t] = "raised"
                 /\ outcome[t] = Raised("ValidationError")
                 /\ error_path[t] = <<"hyperopt", "scheduler", "max_t">>

C20_Witness ==
    /\ config[1] = CfgHyperopt(-1)
    /\ outcome[1] = Raised("ValidationError")
    /\ error_path[1] = <<"hyperopt", "scheduler", "max_t">>
    /\ VALIDATION_LOCK = 0

-----------------------------------------------------------------------------
(* get_validator: lists and tuples as arrays *)

\* the same items as the other kind of sequence
OtherSequence(v) == IF v.t = "tuple" THEN PyList(v.items) ELSE PyTuple(v.items)

\* C19: the validator of get_validator takes a tuple for the schema type "array"
\* exactly when it takes the list of the same items: pbt's perturbation_factors
\* (1.2, 0.8) is accepted as [1.2, 0.8] is, and a value that is neither a list nor
\* a tuple is not an array.
C19_TupleAsList ==
    (/\ last_call.op = "validate_scheduler"
     /\ last_call.args[1] \in PbtInstances) =>
        LET d == last_call.args[1].d
            v == d["perturbation_factors"]
        IN  IF v.t \in {"tuple", "list"}
            THEN /\ last_call.result =
                      ValidateJson(SchedulerJsonSchema,
                                   PyDict([d EXCEPT !["perturbation_factors"] =
                                              OtherSequence(v)]),
                                   get_validator)
                 /\ v.items = <<PyFloat(120), PyFloat(80)>> =>
                       last_call.result = Returned(None)
            ELSE /\ "array" \notin JsonTypes(v, get_validator)
                 /\ last_call.result.kind = "raise"
                 /\ last_call.result.paths = {<<"perturbation_factors">>}

C19_Witness ==
    /\ last_call.op = "validate_scheduler"
    /\ last_call.args[1] =
         PyDict([type |-> PyStr("pbt"),
                 perturbation_factors |-> PyTuple(<<PyFloat(120), PyFloat(80)>>)])
    /\ last_call.result = Returned(None)

-----------------------------------------------------------------------------
(* the scheduler loader on pbt's quantile_fraction *)

\* C21 as stated: the scheduler loader accepts a "pbt" mapping with a
\* quantile_fraction q exactly when 0 <= q <= 0.5, both ends included (0, 0.25 and
\* 0.5 load; 0.6 and negative values get a ValidationError).
C21_QuantileFractionBounds ==
    (ld_family = "scheduler" /\ ld_value \in PbtQuantileDicts) =>
        LET q == Num(ld_value.d["quantile_fraction"])
        IN  IF 0 <= q /\ q <= 50
            THEN /\ ld_result.kind = "return"
                 /\ ld_result.value.fields["quantile_fraction"] =
                      ld_value.d["quantile_fraction"]
            ELSE ld_result.kind = "raise" /\ ld_result.exc = "ValidationError"

\* the part of C21 the class itself answers for: PopulationBasedTrainingSchedulerConfig
\* loads a quantile_fraction exactly when it lies in [0, 0.5]
QuantileFractionBoundsOfClass ==
    (/\ last_call.op = "Schema.load"
     /\ last_call.args[1] = PyClass("PopulationBasedTrainingSchedulerConfig")
     /\ last_call.args[2] \in PbtQuantileDicts) =>
        LET q == Num(last_call.args[2].d["quantile_fraction"])
        IN  last_call.result.kind = "return" <=> (0 <= q /\ q <= 50)

-----------------------------------------------------------------------------
(* round trip: load a mapping, serialize the object, load the result *)

\* a float field serializes its number as a float, every other field its value
DumpValue(f, x) ==
    IF f.kind \in {"NonNegativeFloat", "FloatRange"} /\ IsNumber(x)
    THEN PyFloat(Num(x))
    ELSE x

\* cls.Schema().dump(obj): every declared field of the object
SchemaDumpObject(fields, obj) ==
    PyDict([k \in DOMAIN obj.fields |-> DumpValue(fields[k], obj.fields[k])])

\* Python's == on two values: numbers by what they stand for
PyEq(a, b) == IF IsNumber(a) /\ IsNumber(b) THEN Num(a) = Num(b) ELSE a = b

\* two loaded objects are equal field for field
ObjectsEqual(a, b) ==
    /\ a.cls = b.cls
    /\ DOMAIN a.fields = DOMAIN b.fields
    /\ \A k \in DOMAIN a.fields : PyEq(a.fields[k], b.fields[k])

\* what the object a load gave serializes to; nothing when the load gave no object
Dumped(first) ==
    IF first.kind = "raise" \/ first.value = None
    THEN None
    ELSE SchemaDumpObject(SchedulerFields(first.value.cls), first.value)

\* load, and when an object came back serialize it and load the mapping it gives
RoundTrip(first, second) ==
    [first |-> first, dumped |-> Dumped(first),
     second |-> IF Dumped(first) = None THEN None ELSE second]

\* the mapping spec section 8 names
HyperbandDefault ==
    PyDict([type |-> PyStr("hyperband"), max_t |-> PyInt(81),
            reduction_factor |-> PyInt(3), stop_last_trials |-> PyBool(TRUE)])

\* the default mapping of every registered name
DefaultMappings ==
    {Minimal(n) : n \in RegistryKeys(scheduler_config_registry)} \cup {HyperbandDefault}

\* through the field's loader
RoundTripLoader ==
    /\ \E m \in LoaderDicts \cup DefaultMappings :
         last_call' = [op |-> "round_trip_loader", args |-> <<m>>,
                       result |-> RoundTrip(SchedulerDeserialize(m),
                                   SchedulerDeserialize(Dumped(SchedulerDeserialize(m))))]
    /\ UNCHANGED <<orch_vars, ld_vars, schema_calls, more_vars>>

\* through a class's own Schema
RoundTripClass ==
    /\ \E opt \in SchedulerClasses, m \in DefaultMappings :
         LET load(x) == SchemaLoad(opt.name, SchedulerFields(opt.name), x.d)
         IN  last_call' = [op |-> "round_trip_class", args |-> <<m, opt>>,
                           result |-> RoundTrip(load(m), load(Dumped(load(m))))]
    /\ UNCHANGED <<orch_vars, ld_vars, schema_calls, more_vars>>

NextRoundTrip == RoundTripLoader \/ RoundTripClass

SpecRoundTrip == Init /\ [][NextRoundTrip]_vars

\* C22 as stated: for every scheduler variant, loading its default mapping through
\* the loader, serializing the object and loading the serialized mapping gives an
\* object equal field for field to the first; {"type": "hyperband", "max_t": 81,
\* "reduction_factor": 3, "stop_last_trials": true} is one such mapping.
C22_RoundTrip ==
    (last_call.op = "round_trip_loader" /\ last_call.args[1] \in DefaultMappings) =>
        LET r == last_call.result
        IN  /\ r.first.kind = "return"
            /\ r.second # None
            /\ r.second.kind = "return"
            /\ ObjectsEqual(r.first.value, r.second.value)

\* the round trip of a class's own Schema: whenever the first load gives an object,
\* loading its serialized form gives an equal one
RoundTripOfClass ==
    (last_call.op = "round_trip_class" /\ last_call.result.first.kind = "return") =>
        LET r == last_call.result
        IN  /\ r.second.kind = "return"
            /\ ObjectsEqual(r.first.value, r.second.value)

-----------------------------------------------------------------------------
(* get_schema called directly by several threads at once: the lru_cache wrapper
   looks the key up, runs the body without holding anything, and stores the result *)

StoreBuilt_lastWins(objs, key, obj) == (key :> obj) @@ objs

\* the wrapper after the body returned: a key that was stored while the body ran
\* keeps its entry, otherwise the new object is stored
StoreBuilt(objs, key, obj) ==
    IF key \in DOMAIN objs THEN objs ELSE (key :> obj) @@ objs

\* the keys of the cache
CacheKeys(cache) == {cache[i] : i \in DOMAIN cache}

\* a thread enters get_schema(model_type=mt): a hit returns the cached object and
\* makes the key the most recent, a miss goes on to run the body
RaceLookup(t) ==
    /\ gs_pc[t] \in {"idle", "done"}
    /\ gs_calls < MaxRaceCalls
    /\ gs_calls' = gs_calls + 1
    /\ \E mt \in KnownModelTypes :
         /\ gs_arg' = [gs_arg EXCEPT ![t] = mt]
         /\ IF InCache(schema_cache, mt)
            THEN /\ schema_cache' = LruTouch(schema_cache, mt, SchemaCacheMaxsize)
                 /\ gs_obj' = [gs_obj EXCEPT ![t] = cache_obj[mt]]
                 /\ gs_pc' = [gs_pc EXCEPT ![t] = "done"]
            ELSE /\ gs_pc' = [gs_pc EXCEPT ![t] = "building"]
                 /\ gs_obj' = [gs_obj EXCEPT ![t] = None]
                 /\ UNCHANGED schema_cache
    /\ UNCHANGED <<cache_obj, finished>>
    /\ UNCHANGED <<pc, calls, config, updated_config, model_type, splitter, schema, cls,
                   log, seen, thrown, error_path, outcome, VALIDATION_LOCK,
                   validator_cache, ld_vars, call_vars, share_vars>>

\* the body has returned: the thread stores its object unless the key is there by
\* now, and returns its own object either way
RaceStore(t) ==
    /\ gs_pc[t] = "building"
    /\ LET mt == gs_arg[t]
           obj == [build |-> Len(finished) + 1, value |-> BuildSchema(mt)]
           present == InCache(schema_cache, mt)
       IN  /\ schema_cache' = IF present THEN schema_cache
                              ELSE LruTouch(schema_cache, mt, SchemaCacheMaxsize)
           /\ cache_obj' = LET objs == StoreBuilt(cache_obj, mt, obj)
                           IN  [k \in DOMAIN objs \cap CacheKeys(schema_cache') |-> objs[k]]
           /\ finished' = Append(finished, [mt |-> mt, thread |-> t, stored |-> ~present])
           /\ gs_obj' = [gs_obj EXCEPT ![t] = obj]
           /\ gs_pc' = [gs_pc EXCEPT ![t] = "done"]
    /\ UNCHANGED <<gs_arg, gs_calls>>
    /\ UNCHANGED <<pc, calls, config, updated_config, model_type, splitter, schema, cls,
                   log, seen, thrown, error_path, outcome, VALIDATION_LOCK,
                   validator_cache, ld_vars, call_vars, share_vars>>

NextRace == \E t \in Threads : RaceLookup(t) \/ RaceStore(t)

SpecRace == Init /\ [][NextRace]_vars

\* build j was a duplicate: its thread missed the key, and when its body returned
\* another thread had stored the key; no build of the same key ended after it
DuplicateBuild(j) ==
    /\ j \in DOMAIN finished
    /\ ~finished[j].stored
    /\ \A k \in DOMAIN finished : k > j => finished[k].mt # finished[j].mt
    /\ finished[j].mt \in DOMAIN cache_obj

\* what C23 says of every race: equal schemas for equal model types, one entry for
\* a key, never more than 2 entries
RaceIsSafe ==
    /\ \A t, u \in Threads :
          (gs_pc[t] = "done" /\ gs_pc[u] = "done" /\ gs_arg[t] = gs_arg[u]) =>
              gs_obj[t].value = gs_obj[u].value
    /\ Len(schema_cache) <= 2
    /\ \A i, k \in DOMAIN schema_cache : schema_cache[i] = schema_cache[k] => i = k
    /\ DOMAIN cache_obj = CacheKeys(schema_cache)

\* C23 as stated: when two threads build the schema of the same uncached model type
\* at once, both get equal schemas, the cache then has one entry for the model type
\* and at most 2 entries, and the entry that stays is that of the build that ended
\* last.
C23_LastWriteRemains ==
    /\ RaceIsSafe
    /\ \A j \in DOMAIN finished :
          DuplicateBuild(j) => cache_obj[finished[j].mt].build = j

\* C23 amended: ... and the entry that stays is that of the build that ended first
\* and stored the key; the object of the build that ended later goes to its caller
\* only and is never stored.
C23_FirstWriteRemains ==
    /\ RaceIsSafe
    /\ \A j \in DOMAIN finished :
          DuplicateBuild(j) =>
              LET kept == cache_obj[finished[j].mt]
              IN  /\ kept.build < j
                  /\ finished[kept.build].stored
                  /\ finished[kept.build].mt = finished[j].mt
                  /\ finished[kept.build].thread # finished[j].thread
                  /\ kept.value = BuildSchema(finished[j].mt)

C23_Witness ==
    /\ gs_pc = [t \in Threads |-> "done"]
    /\ gs_arg[1] = "gbm" /\ gs_arg[2] = "gbm"
    /\ finished = <<[mt |-> "gbm", thread |-> 2, stored |-> TRUE],
                    [mt |-> "gbm", thread |-> 1, stored |-> FALSE]>>
    /\ cache_obj["gbm"].build = 1
    /\ gs_obj[1].build = 2
    /\ schema_cache = <<"gbm">>

-----------------------------------------------------------------------------
(* validate_config: what the lock covers *)

\* the step thread t takes in a transition, when it takes one that it logs
StepTaken(t) == log'[t][Len(log'[t])]

\* C24: in validate_config the lock is held exactly from the entry of the with block
\* to its exit: get_schema, get_validator and validate run with the caller holding
\* it, the upgrader and the splitter steps run with the caller not holding it (so
\* several threads can be in them at once), and the schema and validator caches
\* change only while a caller holds the lock.
C24_LockCoversCaches ==
    [][\A t \in Threads :
          /\ VALIDATION_LOCK' = t <=> pc'[t] \in InLock
          /\ (log'[t] # log[t] /\ log'[t] # <<>>) =>
                /\ StepTaken(t) \in {"get_schema", "get_validator", "validate", "release"}
                      => VALIDATION_LOCK = t
                /\ StepTaken(t) \in {"upgrade", "get_splitter", "splitter_validate",
                                      "acquire"}
                      => VALIDATION_LOCK # t
          /\ (schema_cache' # schema_cache \/ validator_cache' # validator_cache) =>
                VALIDATION_LOCK \in Threads]_vars

\* two callers past the upgrader and in the splitter steps at once, while the lock
\* is free and a schema is already cached
C24_Witness ==
    /\ pc[1] = "upgraded"
    /\ pc[2] = "have_splitter"
    /\ VALIDATION_LOCK = 0
    /\ schema_cache # <<>>

-----------------------------------------------------------------------------
(* the default of a polymorphic field: default_factory=lambda: load_default *)

DefaultFactory_fresh(decl, h) ==
    [ref |-> Len(h) + 1, heap |-> Append(h, h[decl.default_ref])]

\* default_factory(): the lambda returns the object the field builder loaded, no copy
DefaultFactory(decl, h) == [ref |-> decl.default_ref, heap |-> h]

\* the field builder of a family
FieldBuilder(family, default) ==
    IF family = "scheduler" THEN SchedulerDataclassField(default)
    ELSE SearchAlgorithmDataclassField(default)

\* the defaults the fields are declared with here
DeclaredDefaults ==
    {SchedulerFieldDefault, SearchAlgorithmFieldDefault, HyperbandDefault,
     Minimal("bogus"), None}

\* a config class declares the field of a family: the builder runs and loads the
\* default once; a builder that raises declares nothing
DeclareField ==
    /\ \E family \in Families, default \in DeclaredDefaults :
         /\ fields_declared[family] = None
         /\ LET r == FieldBuilder(family, default)
            IN  IF r.kind = "raise"
                THEN UNCHANGED <<heap, fields_declared, resolved>>
                ELSE /\ heap' = Append(heap, r.value.load_default)
                     /\ fields_declared' = [fields_declared EXCEPT ![family] =
                                        [field |-> r.value, default_ref |-> Len(heap) + 1]]
                     /\ resolved' = [resolved EXCEPT ![family] = @ + 1]
    /\ UNCHANGED <<cfgs, orch_vars, ld_vars, call_vars, gs_vars>>

\* a config object is created without a value for the field: the dataclass calls the
\* field's default_factory
NewConfig ==
    /\ Len(cfgs) < MaxConfigs
    /\ \E family \in Families :
         /\ fields_declared[family] # None
         /\ LET made == DefaultFactory(fields_declared[family], heap)
            IN  /\ heap' = made.heap
                /\ cfgs' = Append(cfgs, [family |-> family, ref |-> made.ref])
    /\ UNCHANGED <<fields_declared, resolved, orch_vars, ld_vars, call_vars, gs_vars>>

\* the values a caller assigns to the `type` of the object its config holds
AssignedTypes == {PyStr("fifo"), PyStr("bohb")}

\* config.<field>.type = v, through one config object
Mutate ==
    /\ \E i \in DOMAIN cfgs, v \in AssignedTypes :
         heap' = [heap EXCEPT ![cfgs[i].ref].fields["type"] = v]
    /\ UNCHANGED <<fields_declared, resolved, cfgs, orch_vars, ld_vars, call_vars, gs_vars>>

NextShare == DeclareField \/ NewConfig \/ Mutate

SpecShare == Init /\ [][NextShare]_vars

\* what config object i reads as its field
FieldOf(i) == heap[cfgs[i].ref]

\* C25: the default variant of a polymorphic field is loaded once, when the field is
\* built; every call of the default factory gives that one object, so all config
\* objects created without a value for the field hold the same object and a change
\* made through one of them is seen through every other.
C25_SharedDefault ==
    [][/\ \A f \in Families :
            /\ resolved'[f] = (IF fields_declared'[f] = None THEN 0 ELSE 1)
            /\ fields_declared[f] # None => fields_declared'[f] = fields_declared[f]
       /\ \A i \in DOMAIN cfgs' :
            /\ cfgs'[i].ref = fields_declared'[cfgs'[i].family].default_ref
            /\ \A j \in DOMAIN cfgs' :
                  cfgs'[i].family = cfgs'[j].family =>
                      /\ cfgs'[i].ref = cfgs'[j].ref
                      /\ heap'[cfgs'[i].ref] = heap'[cfgs'[j].ref]
       /\ Len(heap') = Cardinality({f \in Families : fields_declared'[f] # None})
       /\ \A i \in DOMAIN cfgs :
            heap'[cfgs[i].ref] # heap[cfgs[i].ref] =>
                \A j \in DOMAIN cfgs :
                    cfgs[j].family = cfgs[i].family =>
                        heap'[cfgs[j].ref] = heap'[cfgs[i].ref]]_vars

\* two config objects of the scheduler field, and the type one of them was given is
\* what the other reads, and what the next config object will get
C25_Witness ==
    /\ Len(cfgs) >= 2
    /\ cfgs[1].family = "scheduler" /\ cfgs[2].family = "scheduler"
    /\ fields_declared["scheduler"].field.load_default.fields["type"] = PyStr("async_hyperband")
    /\ FieldOf(1).fields["type"] = PyStr("fifo")
    /\ FieldOf(2).fields["type"] = PyStr("fifo")
    /\ resolved["scheduler"] = 1

====
